---------------------------- MODULE Spec2Model ----------------------------
(***************************************************************************)
(* Cayenne LPP decoder (cayene::Decoder): the type registry data_types_,   *)
(* add_custom_type / remove_custom_type / has_type, and decode with its    *)
(* frame loop and the twelve standard decode rules.                        *)
(***************************************************************************)
EXTENDS Integers, Sequences, FiniteSets, TLC

(***************************************************************************)
(* std::size_t arithmetic.  std::size_t is an unsigned type whose          *)
(* arithmetic wraps modulo 2^N; N is taken as 30 so that sums stay inside  *)
(* TLC's integers.  Buffers are a few bytes long, so a width within a few  *)
(* units of the maximum wraps exactly as it does for N = 64.               *)
(***************************************************************************)
SIZE_MOD == 1073741824

SIZE_MAX == SIZE_MOD - 1

\* std::dynamic_extent is std::numeric_limits<std::size_t>::max()
dynamic_extent == SIZE_MAX

SizeAdd(a, b) == (a + b) % SIZE_MOD

(***************************************************************************)
(* Bounds of the model                                                     *)
(***************************************************************************)
\* longest payload handed to decode
MaxLen == 6

(***************************************************************************)
(* Error (error.hpp), as used by decode                                    *)
(***************************************************************************)
PayloadEmpty == "PayloadEmpty"
UnknownDataType == "UnknownDataType"
BadPayloadFormat == "BadPayloadFormat"
Unexpected == "Unexpected"
NoError == "NoError"

(***************************************************************************)
(* DecoderFunction values: nullptr, and two callables in the style of the  *)
(* test lambdas: one that ignores its span and returns Json(0), one that   *)
(* returns the Json array of the bytes of its span.                        *)
(***************************************************************************)
nullptr == "nullptr"
ZeroRule == "ZeroRule"
ArrayRule == "ArrayRule"

\* a std::function that tests true only when it holds ArrayRule
Callable_ArrayOnly(fn) == fn = ArrayRule

Callable(fn) == fn # nullptr

(***************************************************************************)
(* Json values.  A number produced by  raw / d  (double division) is kept  *)
(* as the pair (raw, d); an integer n as (n, 1) with type "unsigned".      *)
(***************************************************************************)
JsonUnsigned(n) == [type |-> "number_unsigned", num |-> n, den |-> 1]
JsonFloat(raw, d) == [type |-> "number_float", num |-> raw, den |-> d]
JsonArray(s) == [type |-> "array", items |-> s]
\* the value a rule produces from a span that lies outside the buffer
Indeterminate == [type |-> "indeterminate"]

\* Json::object()
JsonObject == [k \in {} |-> 0]

\* json[key] = value done as an insertion that keeps an entry already there
JsonSet_KeepFirst(json, key, value) ==
    [k \in (DOMAIN json) \cup {key} |-> IF k \in DOMAIN json THEN json[k] ELSE value]

\* json[key] = value
JsonSet(json, key, value) ==
    [k \in (DOMAIN json) \cup {key} |-> IF k = key THEN value ELSE json[k]]

(***************************************************************************)
(* Order of the entries of a Json object.  Json is nlohmann::json, whose   *)
(* objects are std::map<std::string, Json> with std::less: the entries are *)
(* enumerated (items(), begin()..end(), dump()) in ascending order of the  *)
(* keys, compared as strings of unsigned char.                             *)
(***************************************************************************)
\* the code of a character of the keys of the model (ASCII)
CharCode(c) ==
    LET digits == "0123456789"
        upper  == "ABCDEFGHIJKLMNOPQRSTUVWXYZ"
        lower  == "abcdefghijklmnopqrstuvwxyz"
        at(str) == CHOOSE i \in 1..Len(str) : SubSeq(str, i, i) = c
    IN  IF c = " " THEN 32
        ELSE IF c = "_" THEN 95
        ELSE IF \E i \in 1..Len(digits) : SubSeq(digits, i, i) = c
             THEN 47 + at(digits)
        ELSE IF \E i \in 1..Len(upper) : SubSeq(upper, i, i) = c
             THEN 64 + at(upper)
        ELSE 96 + at(lower)

\* std::less<std::string>: lexicographic comparison
RECURSIVE StringLess(_, _)
StringLess(a, b) ==
    IF Len(b) = 0 THEN FALSE
    ELSE IF Len(a) = 0 THEN TRUE
    ELSE LET ca == CharCode(SubSeq(a, 1, 1))
             cb == CharCode(SubSeq(b, 1, 1))
         IN  IF ca # cb THEN ca < cb
             ELSE StringLess(SubSeq(a, 2, Len(a)), SubSeq(b, 2, Len(b)))

RECURSIVE SortedKeys(_)
SortedKeys(keys) ==
    IF keys = {} THEN << >>
    ELSE LET least == CHOOSE k \in keys : \A j \in keys \ {k} : StringLess(k, j)
         IN  <<least>> \o SortedKeys(keys \ {least})

\* the keys of a Json object in the order its entries are enumerated
items(json) == SortedKeys(DOMAIN json)

InvokeRule(fn, data_span) ==
    IF fn = ZeroRule THEN JsonUnsigned(0) ELSE JsonArray(data_span)

(***************************************************************************)
(* DataType (data_type.hpp) and the standard table                         *)
(***************************************************************************)
\* a DataType whose name is made from its type id
DataType_NamedById(type_id_arg, name_arg, size_arg, standard_arg, decoder_func) ==
    [name |-> ToString(type_id_arg), size |-> size_arg, type_id |-> type_id_arg,
     standard |-> standard_arg, decoder_function |-> decoder_func]

DataType(type_id_arg, name_arg, size_arg, standard_arg, decoder_func) ==
    [name |-> name_arg, size |-> size_arg, type_id |-> type_id_arg,
     standard |-> standard_arg, decoder_function |-> decoder_func]

get_v1_standard_data_types ==
    << DataType(0, "Digital Input", 1, TRUE, nullptr),
       DataType(1, "Digital Output", 1, TRUE, nullptr),
       DataType(2, "Analog Input", 2, TRUE, nullptr),
       DataType(3, "Analog Output", 2, TRUE, nullptr),
       DataType(101, "Luminosity", 2, TRUE, nullptr),
       DataType(102, "Presence", 1, TRUE, nullptr),
       DataType(103, "Temperature", 2, TRUE, nullptr),
       DataType(104, "Humidity", 2, TRUE, nullptr),
       DataType(113, "Accelerometer", 6, TRUE, nullptr),
       DataType(115, "Barometer", 2, TRUE, nullptr),
       DataType(134, "Gyrometer", 6, TRUE, nullptr),
       DataType(136, "GPS", 9, TRUE, nullptr) >>

(***************************************************************************)
(* std::unordered_map<std::uint8_t, DataType>                              *)
(***************************************************************************)
\* a lookup that finds the standard entries only
contains_StandardOnly(map, key) == key \in DOMAIN map /\ map[key].standard

contains(map, key) == key \in DOMAIN map

\* emplace inserts only when the key is absent
emplace(map, key, value) ==
    IF key \in DOMAIN map THEN map
    ELSE [k \in (DOMAIN map) \cup {key} |-> IF k = key THEN value ELSE map[k]]

erase(map, key) == [k \in (DOMAIN map) \ {key} |-> map[k]]

RECURSIVE EmplaceAll(_, _, _)
EmplaceAll(map, types, i) ==
    IF i > Len(types) THEN map
    ELSE EmplaceAll(emplace(map, types[i].type_id, types[i]), types, i + 1)

(***************************************************************************)
(* std::span<const std::uint8_t>::subspan(offset, count).  A count of      *)
(* dynamic_extent takes the rest of the span; any other count must fit in  *)
(* size() - offset, and the behaviour is undefined otherwise.              *)
(***************************************************************************)
\* subspan taken from the header of the frame on: the offset is used as it
\* was before the two header bytes were passed
subspan_FromHeader(span, offset, count) ==
    LET from == IF offset >= 2 THEN offset - 2 ELSE offset
    IN  IF count = dynamic_extent
        THEN [defined |-> TRUE, data |-> SubSeq(span, from + 1, Len(span))]
        ELSE IF count <= Len(span) - from
             THEN [defined |-> TRUE, data |-> SubSeq(span, from + 1, from + count)]
             ELSE [defined |-> FALSE, data |-> << >>]

subspan(span, offset, count) ==
    IF count = dynamic_extent
    THEN [defined |-> TRUE, data |-> SubSeq(span, offset + 1, Len(span))]
    ELSE IF count <= Len(span) - offset
         THEN [defined |-> TRUE, data |-> SubSeq(span, offset + 1, offset + count)]
         ELSE [defined |-> FALSE, data |-> << >>]

\* std::to_string(channel) as a conversion padded with zeros to three digits
to_string_Padded(n) ==
    IF n < 10 THEN "00" \o ToString(n)
    ELSE IF n < 100 THEN "0" \o ToString(n)
    ELSE ToString(n)

\* std::to_string(channel): unpadded decimal
to_string(n) == ToString(n)

(***************************************************************************)
(* Byte conversion utilities                                               *)
(***************************************************************************)
\* (b0 << 8) | b1: the two operands have no bit in common, so | adds
bytes_to_uint16(data_span) == ((data_span[1] * 256) + data_span[2]) % 65536

\* bytes_to_int16 without the branch of lines 189-192
bytes_to_int16_Unsigned(data_span) == bytes_to_uint16(data_span)

bytes_to_int16(data_span) ==
    LET unsigned_value == bytes_to_uint16(data_span)
    IN  IF unsigned_value > 32767 THEN unsigned_value - 65536 ELSE unsigned_value

bytes_to_uint24(data_span) ==
    ((data_span[1] * 65536) + (data_span[2] * 256) + data_span[3]) % 16777216

\* bytes_to_int24 without the branch of lines 209-212
bytes_to_int24_Unsigned(data_span) == bytes_to_uint24(data_span)

bytes_to_int24(data_span) ==
    LET unsigned_value == bytes_to_uint24(data_span)
    IN  IF unsigned_value > 8388607 THEN unsigned_value - 16777216 ELSE unsigned_value

(***************************************************************************)
(* Standard type decoders                                                  *)
(***************************************************************************)
decode_digital_input(data_span) == JsonUnsigned(data_span[1])

decode_digital_output(data_span) == JsonUnsigned(data_span[1])

decode_analog_input(data_span) == JsonFloat(bytes_to_int16(data_span), 100)

decode_analog_output(data_span) == JsonFloat(bytes_to_int16(data_span), 100)

decode_luminosity(data_span) == JsonUnsigned(bytes_to_uint16(data_span))

decode_presence(data_span) == JsonUnsigned(data_span[1])

decode_temperature(data_span) == JsonFloat(bytes_to_int16(data_span), 10)

\* decode_humidity reading its bytes as decode_temperature does
decode_humidity_Signed(data_span) == JsonFloat(bytes_to_int16(data_span), 10)

decode_humidity(data_span) == JsonFloat(bytes_to_uint16(data_span), 10)

decode_accelerometer(data_span) ==
    [type |-> "object",
     x |-> JsonFloat(bytes_to_int16(subspan(data_span, 0, 2).data), 1000),
     y |-> JsonFloat(bytes_to_int16(subspan(data_span, 2, 2).data), 1000),
     z |-> JsonFloat(bytes_to_int16(subspan(data_span, 4, 2).data), 1000)]

decode_barometer(data_span) == JsonFloat(bytes_to_uint16(data_span), 10)

\* decode_gyrometer with the divisor of decode_accelerometer
decode_gyrometer_Milli(data_span) ==
    [type |-> "object",
     x |-> JsonFloat(bytes_to_int16(subspan(data_span, 0, 2).data), 1000),
     y |-> JsonFloat(bytes_to_int16(subspan(data_span, 2, 2).data), 1000),
     z |-> JsonFloat(bytes_to_int16(subspan(data_span, 4, 2).data), 1000)]

decode_gyrometer(data_span) ==
    [type |-> "object",
     x |-> JsonFloat(bytes_to_int16(subspan(data_span, 0, 2).data), 100),
     y |-> JsonFloat(bytes_to_int16(subspan(data_span, 2, 2).data), 100),
     z |-> JsonFloat(bytes_to_int16(subspan(data_span, 4, 2).data), 100)]

decode_gps(data_span) ==
    [type |-> "object",
     latitude |-> JsonFloat(bytes_to_int24(subspan(data_span, 0, 3).data), 10000),
     longitude |-> JsonFloat(bytes_to_int24(subspan(data_span, 3, 3).data), 10000),
     altitude |-> JsonFloat(bytes_to_int24(subspan(data_span, 6, 3).data), 100)]

\* the ids the switch of decode has a case for
SwitchCases == {0, 1, 2, 3, 101, 102, 103, 104, 113, 115, 134, 136}

\* switch (type_id) of decode, for a type_id that has a case
StandardRule(type_id, data_span) ==
    CASE type_id = 0 -> decode_digital_input(data_span)
      [] type_id = 1 -> decode_digital_output(data_span)
      [] type_id = 2 -> decode_analog_input(data_span)
      [] type_id = 3 -> decode_analog_output(data_span)
      [] type_id = 101 -> decode_luminosity(data_span)
      [] type_id = 102 -> decode_presence(data_span)
      [] type_id = 103 -> decode_temperature(data_span)
      [] type_id = 104 -> decode_humidity(data_span)
      [] type_id = 113 -> decode_accelerometer(data_span)
      [] type_id = 115 -> decode_barometer(data_span)
      [] type_id = 134 -> decode_gyrometer(data_span)
      [] type_id = 136 -> decode_gps(data_span)

(***************************************************************************)
(* What a call of decode delivers.  std::expected<Json, Error> holds       *)
(* either the Json or the Error; line is the source line of the return     *)
(* statement taken, trace lists current_index at every evaluation of the   *)
(* loop condition, and invoked lists the decode rules the call has applied *)
(* (see Invocation).  Two outcomes are not returns: "abort" (the           *)
(* precondition check of subspan in a build with library assertions) and   *)
(* "hang" (the loop condition is reached again with the same               *)
(* current_index, so the loop never ends).                                 *)
(***************************************************************************)
expected(json, trace, invoked) ==
    [outcome |-> "value", value |-> json, error |-> NoError, line |-> 130,
     trace |-> trace, invoked |-> invoked]

unexpected(err, at, trace, invoked) ==
    [outcome |-> "error", value |-> JsonObject, error |-> err, line |-> at,
     trace |-> trace, invoked |-> invoked]

no_return(how, at, trace, invoked) ==
    [outcome |-> how, value |-> JsonObject, error |-> NoError, line |-> at,
     trace |-> trace, invoked |-> invoked]

\* one application of a decode rule: line 69 applies the decoder_function of
\* the descriptor, lines 81-116 the member function of a case of the switch
\* ("switch"); span is the sub-span passed and at the offset of the header
Invocation(rule, type_id, span, at) ==
    [rule |-> rule, type_id |-> type_id, span |-> span, at |-> at]

Range(s) == {s[i] : i \in DOMAIN s}

\* the two ways a build resolves the undefined subspan
BuildChoices == {"assertions", "release"}

(***************************************************************************)
(* Decoder::decode, lines 43-130: the frame loop and the trailing check    *)
(***************************************************************************)
\* line 43: while (current_index + 2 <= encoded_payload.size())
LoopCondition(current_index, payload_size) ==
    SizeAdd(current_index, 2) <= payload_size

\* line 57 with >= in place of >
InsufficientBytes_Inclusive(current_index, width, payload_size) ==
    SizeAdd(current_index, width) >= payload_size

\* line 57: current_index + data_type.size > encoded_payload.size()
InsufficientBytes(current_index, width, payload_size) ==
    SizeAdd(current_index, width) > payload_size

\* line 125 with the check left out
TrailingBytes_Ignored(current_index, payload_size) == FALSE

\* line 125: current_index != encoded_payload.size()
TrailingBytes(current_index, payload_size) == current_index # payload_size

RECURSIVE DecodeLoop(_, _, _, _, _, _, _)
DecodeLoop(types, encoded_payload, build, current_index, decoded_json, seen, invoked) ==
    LET trace == Append(seen, current_index)
    IN
    IF current_index \in Range(seen)
    THEN no_return("hang", 43, trace, invoked)
    ELSE IF ~LoopCondition(current_index, Len(encoded_payload))
    THEN IF TrailingBytes(current_index, Len(encoded_payload))
         THEN unexpected(BadPayloadFormat, 127, trace, invoked)
         ELSE expected(decoded_json, trace, invoked)
    ELSE
    LET channel == encoded_payload[current_index + 1]
        type_id == encoded_payload[current_index + 2]
        index   == SizeAdd(current_index, 2)
    IN
    IF ~contains(types, type_id)
    THEN unexpected(UnknownDataType, 51, trace, invoked)
    ELSE
    LET data_type == types[type_id]
    IN
    IF InsufficientBytes(index, data_type.size, Len(encoded_payload))
    THEN unexpected(BadPayloadFormat, 59, trace, invoked)
    ELSE
    LET data_span == subspan(encoded_payload, index, data_type.size)
        key       == data_type.name \o "_" \o to_string(channel)
        next      == SizeAdd(index, data_type.size)
    IN
    IF ~data_span.defined /\ build = "assertions"
    THEN no_return("abort", 62, trace, invoked)
    ELSE IF ~data_type.standard
    THEN IF Callable(data_type.decoder_function)
         THEN DecodeLoop(types, encoded_payload, build, next,
                         JsonSet(decoded_json, key,
                                 IF data_span.defined
                                 THEN InvokeRule(data_type.decoder_function,
                                                 data_span.data)
                                 ELSE Indeterminate),
                         trace,
                         Append(invoked,
                                Invocation(data_type.decoder_function, type_id,
                                           data_span, current_index)))
         ELSE unexpected(Unexpected, 73, trace, invoked)
    ELSE IF type_id \notin SwitchCases
    THEN unexpected(UnknownDataType, 118, trace, invoked)
    ELSE DecodeLoop(types, encoded_payload, build, next,
                    JsonSet(decoded_json, key,
                            IF data_span.defined
                            THEN StandardRule(type_id, data_span.data)
                            ELSE Indeterminate),
                    trace,
                    Append(invoked,
                           Invocation("switch", type_id, data_span, current_index)))

\* Decoder::decode without the check of lines 35-38
decode_NoEmptyCheck(types, encoded_payload, build) ==
    DecodeLoop(types, encoded_payload, build, 0, JsonObject, << >>, << >>)

\* Decoder::decode
decode(types, encoded_payload, build) ==
    IF Len(encoded_payload) = 0
    THEN unexpected(PayloadEmpty, 37, << >>, << >>)
    ELSE DecodeLoop(types, encoded_payload, build, 0, JsonObject, << >>, << >>)

(***************************************************************************)
(* Arguments the calls are made with                                       *)
(***************************************************************************)
\* ids registration is tried with: Digital Input (standard) and 0xA0
AddIdChoices == {0, 160}

\* ids asked about and removed: also 0xA1, which is never registered
TypeIdChoices == {0, 160, 161}

\* the empty name, and the name of a standard type
NameChoices == {"", "Digital Input"}

SizeChoices == {0, 1, 2, SIZE_MAX - 1, SIZE_MAX}

RuleChoices == {nullptr, ZeroRule, ArrayRule}

\* Digital Input (also the data byte 0), 0xA0, 0xA1
ByteChoices == {0, 160, 161}

PayloadChoices == UNION {[1..n -> ByteChoices] : n \in 0..MaxLen}

(***************************************************************************)
(* State: the registry of one Decoder, and the caller's view of the call   *)
(* it has just made (the operation, its arguments, what it returned).      *)
(* Calls are made one at a time; the caller drops what a call returned     *)
(* before it makes the next one.                                           *)
(*                                                                         *)
(* data_types_ is the member of the Decoder the calls are made on          *)
(* (decoder1); decoder2_data_types_ is the member of a second Decoder      *)
(* constructed beside it (decoder2).  registered is a history variable:    *)
(* for each of the two, the arguments of the last successful               *)
(* add_custom_type call made on that Decoder for each id, unless a         *)
(* successful remove_custom_type call on that Decoder followed it.         *)
(*                                                                         *)
(* threads holds, for each thread that calls decode on decoder1, the       *)
(* objects of automatic storage of its call (encoded_payload,              *)
(* current_index, decoded_json), where the call stands (pc) and what it    *)
(* has delivered; see the section on concurrent calls.                     *)
(***************************************************************************)
VARIABLES data_types_, decoder2_data_types_, registered, call, ret, result, threads

vars == <<data_types_, decoder2_data_types_, registered, call, ret, result,
          threads>>

Instances == {"decoder1", "decoder2"}

NoArgs == [self |-> "decoder1", type_id |-> 0, name |-> "", size |-> 0,
           decoder_function |-> nullptr, encoded_payload |-> << >>]

NoResult == no_return("none", 0, << >>, << >>)

Idle == [op |-> "idle", args |-> NoArgs]

\* the history after add_custom_type(a...) returned true on self
Noted(history, self, a) ==
    [history EXCEPT ![self] =
        [k \in (DOMAIN @) \cup {a.type_id} |-> IF k = a.type_id THEN a ELSE @[k]]]

\* the history after remove_custom_type(type_id) returned true on self
Dropped(history, self, type_id) ==
    [history EXCEPT ![self] = [k \in (DOMAIN @) \ {type_id} |-> @[k]]]

\* the threads that call decode
Threads == {"thread1", "thread2"}

\* a thread that is not in a call of decode
NoLocals ==
    [pc |-> "idle", encoded_payload |-> << >>, current_index |-> 0,
     decoded_json |-> JsonObject, trace |-> << >>, invoked |-> << >>,
     result |-> NoResult]

\* Decoder::Decoder
Init ==
    /\ data_types_ = EmplaceAll([k \in {} |-> 0], get_v1_standard_data_types, 1)
    /\ decoder2_data_types_
           = EmplaceAll([k \in {} |-> 0], get_v1_standard_data_types, 1)
    /\ registered = [d \in Instances |-> [k \in {} |-> 0]]
    /\ call = Idle
    /\ ret = FALSE
    /\ result = NoResult
    /\ threads = [t \in Threads |-> NoLocals]

\* lookups made with operator[], which inserts a value-initialised DataType
\* under a key that is absent
lookups_Subscript(map, keys) ==
    [k \in (DOMAIN map) \cup keys |->
        IF k \in DOMAIN map THEN map[k] ELSE DataType(0, "", 0, FALSE, nullptr)]

\* the map after lookups of keys with contains, at (lines 49, 54) or contains
\* (line 158): const member functions of std::unordered_map
lookups(map, keys) == map

\* the type_id bytes decode has looked up: one at every header it has read
LookedUp(encoded_payload, trace) ==
    {encoded_payload[trace[n] + 2] :
         n \in {m \in DOMAIN trace :
                    LoopCondition(trace[m], Len(encoded_payload))}}

\* Decoder::decode
Decode ==
    \E encoded_payload \in PayloadChoices, build \in BuildChoices :
        /\ call = Idle
        /\ call' = [op |-> "decode",
                    args |-> [NoArgs EXCEPT !.encoded_payload = encoded_payload]]
        /\ result' = decode(data_types_, encoded_payload, build)
        /\ data_types_' = lookups(data_types_,
                                  LookedUp(encoded_payload, result'.trace))
        /\ ret' = FALSE
        /\ UNCHANGED <<decoder2_data_types_, registered, threads>>

\* add_custom_type without the check of lines 146-149
add_custom_type_AnySize(types, type_id, name, size, decoder_function) ==
    IF contains(types, type_id) THEN [types |-> types, ret |-> FALSE]
    ELSE IF ~Callable(decoder_function) THEN [types |-> types, ret |-> FALSE]
    ELSE [types |-> emplace(types, type_id,
                            DataType(type_id, name, size, FALSE, decoder_function)),
          ret |-> TRUE]

\* add_custom_type that assigns the descriptor before it rejects a duplicate
\* of a custom type
add_custom_type_Overwrites(types, type_id, name, size, decoder_function) ==
    IF contains(types, type_id)
    THEN [types |-> IF types[type_id].standard THEN types
                    ELSE [types EXCEPT ![type_id] =
                              DataType(type_id, name, size, FALSE, decoder_function)],
          ret |-> FALSE]
    ELSE IF ~Callable(decoder_function) THEN [types |-> types, ret |-> FALSE]
    ELSE IF size = 0 THEN [types |-> types, ret |-> FALSE]
    ELSE [types |-> emplace(types, type_id,
                            DataType(type_id, name, size, FALSE, decoder_function)),
          ret |-> TRUE]

\* add_custom_type without the check of lines 141-144
add_custom_type_AnyRule(types, type_id, name, size, decoder_function) ==
    IF contains(types, type_id) THEN [types |-> types, ret |-> FALSE]
    ELSE IF size = 0 THEN [types |-> types, ret |-> FALSE]
    ELSE [types |-> emplace(types, type_id,
                            DataType(type_id, name, size, FALSE, decoder_function)),
          ret |-> TRUE]

\* registry and return value of Decoder::add_custom_type
add_custom_type(types, type_id, name, size, decoder_function) ==
    IF contains(types, type_id) THEN [types |-> types, ret |-> FALSE]
    ELSE IF ~Callable(decoder_function) THEN [types |-> types, ret |-> FALSE]
    ELSE IF size = 0 THEN [types |-> types, ret |-> FALSE]
    ELSE [types |-> emplace(types, type_id,
                            DataType(type_id, name, size, FALSE, decoder_function)),
          ret |-> TRUE]

AddCustomType ==
    \E type_id \in AddIdChoices, name \in NameChoices, size \in SizeChoices,
       decoder_function \in RuleChoices :
        LET r == add_custom_type(data_types_, type_id, name, size, decoder_function)
        IN  /\ call = Idle
            /\ call' = [op |-> "add_custom_type",
                        args |-> [NoArgs EXCEPT !.type_id = type_id, !.name = name,
                                                !.size = size,
                                                !.decoder_function = decoder_function]]
            /\ data_types_' = r.types
            /\ registered' = IF r.ret
                              THEN Noted(registered, "decoder1", call'.args)
                              ELSE registered
            /\ ret' = r.ret
            /\ result' = NoResult
            /\ UNCHANGED <<decoder2_data_types_, threads>>

\* Decoder::has_type
has_type(types, type_id) == contains(types, type_id)

HasType ==
    \E type_id \in TypeIdChoices :
        /\ call = Idle
        /\ call' = [op |-> "has_type", args |-> [NoArgs EXCEPT !.type_id = type_id]]
        /\ ret' = has_type(data_types_, type_id)
        /\ data_types_' = lookups(data_types_, {type_id})
        /\ result' = NoResult
        /\ UNCHANGED <<decoder2_data_types_, registered, threads>>

\* remove_custom_type without the check of lines 169-173
remove_custom_type_AnyType(types, type_id) ==
    IF ~contains(types, type_id) THEN [types |-> types, ret |-> FALSE]
    ELSE [types |-> erase(types, type_id), ret |-> TRUE]

\* remove_custom_type without the erase of line 175
remove_custom_type_NoErase(types, type_id) ==
    IF ~contains(types, type_id) THEN [types |-> types, ret |-> FALSE]
    ELSE IF types[type_id].standard THEN [types |-> types, ret |-> FALSE]
    ELSE [types |-> types, ret |-> TRUE]

\* registry and return value of Decoder::remove_custom_type
remove_custom_type(types, type_id) ==
    IF ~contains(types, type_id) THEN [types |-> types, ret |-> FALSE]
    ELSE IF types[type_id].standard THEN [types |-> types, ret |-> FALSE]
    ELSE [types |-> erase(types, type_id), ret |-> TRUE]

RemoveCustomType ==
    \E type_id \in TypeIdChoices :
        LET r == remove_custom_type(data_types_, type_id)
        IN  /\ call = Idle
            /\ call' = [op |-> "remove_custom_type",
                        args |-> [NoArgs EXCEPT !.type_id = type_id]]
            /\ data_types_' = r.types
            /\ registered' = IF r.ret
                              THEN Dropped(registered, "decoder1", type_id)
                              ELSE registered
            /\ ret' = r.ret
            /\ result' = NoResult
            /\ UNCHANGED <<decoder2_data_types_, threads>>

\* the caller is done with what its last call returned
Discard ==
    /\ call # Idle
    /\ call' = Idle
    /\ ret' = FALSE
    /\ result' = NoResult
    /\ UNCHANGED <<data_types_, decoder2_data_types_, registered, threads>>

Next == Decode \/ AddCustomType \/ HasType \/ RemoveCustomType \/ Discard

Spec == Init /\ [][Next]_vars

(***************************************************************************)
(* Two Decoders used side by side (decoder1 and decoder2 of                *)
(* DecodeDecoderInstanceIsolation): every call is made on either of them.  *)
(***************************************************************************)
\* longest payload handed to decode in these runs
PairLen == 3

\* 0xA0 and 0xA1, the ids the test registers on decoder1 and on decoder2
PairIdChoices == {160, 161}

PairSizeChoices == {1, 2}

PairPayloadChoices == UNION {[1..n -> ByteChoices] : n \in 0..PairLen}

\* this->data_types_ in a member function called on self
this_data_types_(self, member1, member2) ==
    IF self = "decoder1" THEN member1 ELSE member2

\* data_types_ as a static member: one map for all Decoders
data_types_after_Static(owner, self, written, held) == written

\* the data_types_ member of the Decoder owner (which held `held`) once a
\* member function called on self has left `written` in this->data_types_
data_types_after(owner, self, written, held) ==
    IF owner = self THEN written ELSE held

PairAddCustomType ==
    \E self \in Instances, type_id \in PairIdChoices, name \in NameChoices,
       size \in PairSizeChoices :
        LET mine == this_data_types_(self, data_types_, decoder2_data_types_)
            r == add_custom_type(mine, type_id, name, size, ArrayRule)
        IN  /\ call = Idle
            /\ call' = [op |-> "add_custom_type",
                        args |-> [NoArgs EXCEPT !.self = self, !.type_id = type_id,
                                                !.name = name, !.size = size,
                                                !.decoder_function = ArrayRule]]
            /\ data_types_'
                   = data_types_after("decoder1", self, r.types, data_types_)
            /\ decoder2_data_types_'
                   = data_types_after("decoder2", self, r.types, decoder2_data_types_)
            /\ registered' = IF r.ret THEN Noted(registered, self, call'.args)
                              ELSE registered
            /\ ret' = r.ret
            /\ result' = NoResult
            /\ UNCHANGED threads

PairRemoveCustomType ==
    \E self \in Instances, type_id \in PairIdChoices :
        LET mine == this_data_types_(self, data_types_, decoder2_data_types_)
            r == remove_custom_type(mine, type_id)
        IN  /\ call = Idle
            /\ call' = [op |-> "remove_custom_type",
                        args |-> [NoArgs EXCEPT !.self = self, !.type_id = type_id]]
            /\ data_types_'
                   = data_types_after("decoder1", self, r.types, data_types_)
            /\ decoder2_data_types_'
                   = data_types_after("decoder2", self, r.types, decoder2_data_types_)
            /\ registered' = IF r.ret THEN Dropped(registered, self, type_id)
                              ELSE registered
            /\ ret' = r.ret
            /\ result' = NoResult
            /\ UNCHANGED threads

PairHasType ==
    \E self \in Instances, type_id \in PairIdChoices :
        /\ call = Idle
        /\ call' = [op |-> "has_type",
                    args |-> [NoArgs EXCEPT !.self = self, !.type_id = type_id]]
        /\ ret' = has_type(this_data_types_(self, data_types_, decoder2_data_types_),
                           type_id)
        /\ result' = NoResult
        /\ UNCHANGED <<data_types_, decoder2_data_types_, registered, threads>>

PairDecode ==
    \E self \in Instances, encoded_payload \in PairPayloadChoices,
       build \in BuildChoices :
        /\ call = Idle
        /\ call' = [op |-> "decode",
                    args |-> [NoArgs EXCEPT !.self = self,
                                            !.encoded_payload = encoded_payload]]
        /\ result' = decode(this_data_types_(self, data_types_, decoder2_data_types_),
                            encoded_payload, build)
        /\ ret' = FALSE
        /\ UNCHANGED <<data_types_, decoder2_data_types_, registered, threads>>

NextPair ==
    PairAddCustomType \/ PairRemoveCustomType \/ PairHasType \/ PairDecode
        \/ Discard

SpecPair == Init /\ [][NextPair]_vars

(***************************************************************************)
(* Channels: frames on every channel 0..255, and the payloads of           *)
(* PayloadChoices up to ChannelLen, handed to a Decoder on which 0xA0 is   *)
(* registered or not.                                                      *)
(***************************************************************************)
\* longest payload over ByteChoices handed to decode in these runs
ChannelLen == 6

\* what follows the channel byte: a Digital Input frame, a Temperature frame
\* (27.2), a Temperature frame short of one byte, a frame of 0xA0 with one
\* byte, a header of 0xA0 alone, a header of 0xA1 (never registered), nothing
ChannelTails ==
    { <<0, 0>>, <<103, 1, 16>>, <<103, 1>>, <<160, 0>>, <<160>>, <<161, 0>>, << >> }

ChannelPayloadChoices ==
    { <<channel>> \o tail : channel \in 0..255, tail \in ChannelTails }
        \cup UNION {[1..n -> ByteChoices] : n \in 0..ChannelLen}

\* widths 0xA0 is registered with: 1, and the std::size_t maximum
ChannelSizeChoices == {1, SIZE_MAX}

ChannelAddCustomType ==
    \E name \in NameChoices, size \in ChannelSizeChoices :
        LET r == add_custom_type(data_types_, 160, name, size, ArrayRule)
        IN  /\ call = Idle
            /\ call' = [op |-> "add_custom_type",
                        args |-> [NoArgs EXCEPT !.type_id = 160, !.name = name,
                                                !.size = size,
                                                !.decoder_function = ArrayRule]]
            /\ data_types_' = r.types
            /\ registered' = IF r.ret
                              THEN Noted(registered, "decoder1", call'.args)
                              ELSE registered
            /\ ret' = r.ret
            /\ result' = NoResult
            /\ UNCHANGED <<decoder2_data_types_, threads>>

ChannelDecode ==
    \E encoded_payload \in ChannelPayloadChoices, build \in BuildChoices :
        /\ call = Idle
        /\ call' = [op |-> "decode",
                    args |-> [NoArgs EXCEPT !.encoded_payload = encoded_payload]]
        /\ result' = decode(data_types_, encoded_payload, build)
        /\ ret' = FALSE
        /\ UNCHANGED <<data_types_, decoder2_data_types_, registered, threads>>

NextChannel == ChannelAddCustomType \/ ChannelDecode \/ Discard

SpecChannel == Init /\ [][NextChannel]_vars

(***************************************************************************)
(* Standard rules: one frame of a standard type, with data bytes drawn     *)
(* from the values at the edges of the conversions and from the frames of  *)
(* the tests and the documentation, handed to a freshly constructed        *)
(* Decoder.                                                                *)
(***************************************************************************)
\* 0x00, 0x01, 0x7F, 0x80, 0xFF and bytes of documented frames
RuleByteChoices ==
    {0, 1, 2, 3, 16, 88, 127, 128, 129, 206, 216, 232, 244, 246, 254, 255}

\* 16-bit fields: 500, -40, 1000 (the documented accelerometer frame), the
\* largest and the smallest value, 0, -1, 1, 256
FieldChoices ==
    { <<1, 244>>, <<255, 216>>, <<3, 232>>, <<127, 255>>, <<128, 0>>, <<0, 0>>,
      <<255, 255>>, <<0, 1>>, <<1, 0>> }

\* 24-bit fields: -50 (the documented altitude), the largest and the
\* smallest value, 0, -1, 1, 256, 65536
TripleChoices ==
    { <<255, 255, 206>>, <<127, 255, 255>>, <<128, 0, 0>>, <<0, 0, 0>>,
      <<255, 255, 255>>, <<0, 0, 1>>, <<0, 1, 0>>, <<1, 0, 0>> }

\* the data a frame of a standard type is given
RuleDataChoices(type_id) ==
    CASE type_id \in {0, 1, 102} -> {<<b>> : b \in 0..255}
      [] type_id \in {2, 3, 101, 103, 104, 115} ->
            {<<b0, b1>> : b0 \in RuleByteChoices, b1 \in RuleByteChoices}
      [] type_id \in {113, 134} ->
            {x \o y \o z : x \in FieldChoices, y \in FieldChoices, z \in FieldChoices}
      [] type_id = 136 ->
            {x \o y \o z : x \in TripleChoices, y \in TripleChoices,
                           z \in TripleChoices}

RuleDecode ==
    \E type_id \in SwitchCases, build \in BuildChoices :
        \E data \in RuleDataChoices(type_id) :
            /\ call = Idle
            /\ call' = [op |-> "decode",
                        args |-> [NoArgs EXCEPT
                                     !.encoded_payload = <<1, type_id>> \o data]]
            /\ result' = decode(data_types_, <<1, type_id>> \o data, build)
            /\ ret' = FALSE
            /\ UNCHANGED <<data_types_, decoder2_data_types_, registered, threads>>

NextRules == RuleDecode \/ Discard

SpecRules == Init /\ [][NextRules]_vars

(***************************************************************************)
(* Concurrent calls: two threads call decode on decoder1.  Each call has   *)
(* its own encoded_payload, current_index and decoded_json (automatic      *)
(* storage, lines 33-41) and reads this->data_types_ (lines 49, 54); a     *)
(* step of a thread is the entry of the call (lines 35-41), one evaluation *)
(* of the loop condition with the iteration or the exit that follows it    *)
(* (lines 43-130), or the end of the call at the caller.  Steps of the two *)
(* threads interleave in any order.  add_custom_type is called only while  *)
(* no call of decode is under way.  The failed precondition check of       *)
(* subspan in a build with library assertions ends the process, and with   *)
(* it every thread.                                                        *)
(***************************************************************************)
\* longest payload handed to decode by a thread
ThreadLen == 4

\* Digital Input (also the data byte 0) and 0xA0
ThreadByteChoices == {0, 160}

ThreadPayloadChoices == UNION {[1..n -> ThreadByteChoices] : n \in 0..ThreadLen}

\* widths 0xA0 is registered with
ThreadSizeChoices == {1, SIZE_MAX - 1, SIZE_MAX}

\* lines 35-41: the empty check, and the locals of the call
Enter(encoded_payload) ==
    IF Len(encoded_payload) = 0
    THEN [NoLocals EXCEPT !.pc = "returned",
                          !.encoded_payload = encoded_payload,
                          !.result = unexpected(PayloadEmpty, 37, << >>, << >>)]
    ELSE [NoLocals EXCEPT !.pc = "line43",
                          !.encoded_payload = encoded_payload,
                          !.current_index = 0,
                          !.decoded_json = JsonObject]

\* the call has left decode with r (a return, or no return at all)
Left(local, pc, r) == [local EXCEPT !.pc = pc, !.result = r]

\* lines 43-130, from one evaluation of the loop condition to the next, or to
\* the end of the call
Iterate(types, local, build) ==
    LET encoded_payload == local.encoded_payload
        current_index   == local.current_index
        invoked         == local.invoked
        trace           == Append(local.trace, current_index)
    IN
    IF current_index \in Range(local.trace)
    THEN Left(local, "hung", no_return("hang", 43, trace, invoked))
    ELSE IF ~LoopCondition(current_index, Len(encoded_payload))
    THEN IF TrailingBytes(current_index, Len(encoded_payload))
         THEN Left(local, "returned",
                   unexpected(BadPayloadFormat, 127, trace, invoked))
         ELSE Left(local, "returned",
                   expected(local.decoded_json, trace, invoked))
    ELSE
    LET channel == encoded_payload[current_index + 1]
        type_id == encoded_payload[current_index + 2]
        index   == SizeAdd(current_index, 2)
    IN
    IF ~contains(types, type_id)
    THEN Left(local, "returned", unexpected(UnknownDataType, 51, trace, invoked))
    ELSE
    LET data_type == types[type_id]
    IN
    IF InsufficientBytes(index, data_type.size, Len(encoded_payload))
    THEN Left(local, "returned", unexpected(BadPayloadFormat, 59, trace, invoked))
    ELSE
    LET data_span == subspan(encoded_payload, index, data_type.size)
        key       == data_type.name \o "_" \o to_string(channel)
        next      == SizeAdd(index, data_type.size)
        value     == IF ~data_span.defined THEN Indeterminate
                     ELSE IF data_type.standard
                     THEN StandardRule(type_id, data_span.data)
                     ELSE InvokeRule(data_type.decoder_function, data_span.data)
        rule      == IF data_type.standard THEN "switch"
                     ELSE data_type.decoder_function
    IN
    IF ~data_span.defined /\ build = "assertions"
    THEN Left(local, "aborted", no_return("abort", 62, trace, invoked))
    ELSE IF ~data_type.standard /\ ~Callable(data_type.decoder_function)
    THEN Left(local, "returned", unexpected(Unexpected, 73, trace, invoked))
    ELSE IF data_type.standard /\ type_id \notin SwitchCases
    THEN Left(local, "returned", unexpected(UnknownDataType, 118, trace, invoked))
    ELSE [local EXCEPT
             !.current_index = next,
             !.decoded_json = JsonSet(local.decoded_json, key, value),
             !.trace = trace,
             !.invoked = Append(invoked,
                                Invocation(rule, type_id, data_span,
                                           current_index))]

\* no call of decode is under way
Quiescent == \A t \in Threads : threads[t].pc = "idle"

\* Decoder::add_custom_type of 0xA0, between the calls of decode
ThreadAddCustomType ==
    \E size \in ThreadSizeChoices :
        LET r == add_custom_type(data_types_, 160, "", size, ArrayRule)
        IN  /\ Quiescent
            /\ r.ret
            /\ data_types_' = r.types
            /\ registered' = Noted(registered, "decoder1",
                                   [NoArgs EXCEPT !.type_id = 160, !.size = size,
                                                  !.decoder_function = ArrayRule])
            /\ UNCHANGED <<decoder2_data_types_, call, ret, result, threads>>

\* a thread calls decode
ThreadCall ==
    \E t \in Threads, encoded_payload \in ThreadPayloadChoices :
        /\ threads[t].pc = "idle"
        /\ threads' = [threads EXCEPT ![t] = Enter(encoded_payload)]
        /\ UNCHANGED <<data_types_, decoder2_data_types_, registered, call, ret,
                       result>>

\* a thread takes its next step in decode; std::abort ends the process: the
\* other calls under way do not return ("aborted") and no call follows ("exit")
ThreadStep ==
    \E t \in Threads, build \in BuildChoices :
        LET local == Iterate(data_types_, threads[t], build)
        IN  /\ threads[t].pc = "line43"
            /\ threads' =
                   IF local.pc = "aborted"
                   THEN [u \in Threads |->
                            IF u = t THEN local
                            ELSE IF threads[u].pc = "line43"
                            THEN [threads[u] EXCEPT !.pc = "aborted"]
                            ELSE [threads[u] EXCEPT !.pc = "exit"]]
                   ELSE [threads EXCEPT ![t] = local]
            /\ UNCHANGED <<data_types_, decoder2_data_types_, registered, call,
                           ret, result>>

\* the caller is done with what decode returned
ThreadDone ==
    \E t \in Threads :
        /\ threads[t].pc = "returned"
        /\ threads' = [threads EXCEPT ![t] = NoLocals]
        /\ UNCHANGED <<data_types_, decoder2_data_types_, registered, call, ret,
                       result>>

NextThreads == ThreadAddCustomType \/ ThreadCall \/ ThreadStep \/ ThreadDone

SpecThreads == Init /\ [][NextThreads]_vars

(***************************************************************************)
(* Concatenations: the calls of Spec with longer buffers, so that a buffer *)
(* can hold a frame sequence A followed by a frame sequence B.             *)
(***************************************************************************)
\* longest payload handed to decode in these runs
ConcatLen == 7

ConcatPayloadChoices == UNION {[1..n -> ByteChoices] : n \in 0..ConcatLen}

ConcatDecode ==
    \E encoded_payload \in ConcatPayloadChoices, build \in BuildChoices :
        /\ call = Idle
        /\ call' = [op |-> "decode",
                    args |-> [NoArgs EXCEPT !.encoded_payload = encoded_payload]]
        /\ result' = decode(data_types_, encoded_payload, build)
        /\ ret' = FALSE
        /\ UNCHANGED <<data_types_, decoder2_data_types_, registered, threads>>

NextConcat == AddCustomType \/ RemoveCustomType \/ ConcatDecode \/ Discard

SpecConcat == Init /\ [][NextConcat]_vars

(***************************************************************************)
(* The wire format, stated on the buffer alone (plain integers, no cursor  *)
(* arithmetic of the implementation): a frame is [channel, type_id, data]  *)
(* with data of the registered width of type_id.                           *)
(***************************************************************************)
Registered(types, type_id) == type_id \in DOMAIN types

\* a complete frame starts at offset i (0-based) of payload
FrameAt(types, payload, i) ==
    /\ i + 2 <= Len(payload)
    /\ Registered(types, payload[i + 2])
    /\ types[payload[i + 2]].size <= Len(payload) - (i + 2)

FrameEnd(types, payload, i) == i + 2 + types[payload[i + 2]].size

\* offsets at which the frames of payload start, walking from offset i while
\* complete frames follow one another
RECURSIVE FrameStarts(_, _, _)
FrameStarts(types, payload, i) ==
    IF FrameAt(types, payload, i)
    THEN <<i>> \o FrameStarts(types, payload, FrameEnd(types, payload, i))
    ELSE << >>

\* the offset right after the last complete frame
WalkEnd(types, payload) ==
    LET starts == FrameStarts(types, payload, 0)
    IN  IF starts = << >> THEN 0
        ELSE FrameEnd(types, payload, starts[Len(starts)])

\* payload is non-empty and its frames exactly partition it
WellFramed(types, payload) ==
    Len(payload) > 0 /\ WalkEnd(types, payload) = Len(payload)

FrameKey(types, payload, i) ==
    types[payload[i + 2]].name \o "_" \o ToString(payload[i + 1])

FrameData(types, payload, i) ==
    SubSeq(payload, i + 3, FrameEnd(types, payload, i))

\* the value the frame at offset i stands for
FrameValue(types, payload, i) ==
    IF types[payload[i + 2]].standard
    THEN StandardRule(payload[i + 2], FrameData(types, payload, i))
    ELSE InvokeRule(types[payload[i + 2]].decoder_function,
                    FrameData(types, payload, i))

\* the first defect of payload in buffer order ("none" when well framed)
FirstDefect(types, payload) ==
    LET e == WalkEnd(types, payload)
    IN  IF Len(payload) = 0 THEN PayloadEmpty
        ELSE IF e = Len(payload) THEN "none"
        ELSE IF Len(payload) - e = 1 THEN BadPayloadFormat
        ELSE IF ~Registered(types, payload[e + 2]) THEN UnknownDataType
        ELSE BadPayloadFormat

Decoded == call.op = "decode"

Payload == call.args.encoded_payload

(***************************************************************************)
(* C1: a non-empty buffer that is a concatenation of frames of registered  *)
(* types, each with data of exactly the registered width, decodes          *)
(* successfully; the mapping has exactly the keys "<name>_<channel>" of    *)
(* its frames, and under each key the value of the last frame with that    *)
(* key.                                                                    *)
(***************************************************************************)
C1_WellFramedDecodes ==
    (Decoded /\ WellFramed(data_types_, Payload)) =>
        LET starts == FrameStarts(data_types_, Payload, 0)
            keyOf(n) == FrameKey(data_types_, Payload, starts[n])
        IN  /\ result.outcome = "value"
            /\ DOMAIN result.value = {keyOf(n) : n \in DOMAIN starts}
            /\ \A n \in DOMAIN starts :
                   (\A m \in DOMAIN starts : m > n => keyOf(m) # keyOf(n))
                       => result.value[keyOf(n)]
                              = FrameValue(data_types_, Payload, starts[n])

\* two frames with the same key and different data were decoded, one custom
C1_Witness ==
    /\ Decoded
    /\ WellFramed(data_types_, Payload)
    /\ Len(FrameStarts(data_types_, Payload, 0)) = 2
    /\ Cardinality(DOMAIN result.value) = 1
    /\ Payload[2] # Payload[5]
    /\ FrameValue(data_types_, Payload, 0) # FrameValue(data_types_, Payload, 3)

\* the call returned, and returns the same in every build: no subspan outside
\* the buffer was taken on its way
DefinedCall ==
    /\ Decoded
    /\ result.outcome \in {"value", "error"}
    /\ result = decode(data_types_, Payload, "assertions")

(***************************************************************************)
(* C2: decode returns no partial result; when the buffer has a defect, the *)
(* caller gets an error and no entry, and the error is the one of the      *)
(* earliest defect in buffer order.  (Stated for calls whose behaviour is  *)
(* defined.)                                                               *)
(***************************************************************************)
C2_EarliestDefectOnly ==
    (DefinedCall /\ FirstDefect(data_types_, Payload) # "none") =>
        /\ result.outcome = "error"
        /\ DOMAIN result.value = {}
        /\ result.error = FirstDefect(data_types_, Payload)

(***************************************************************************)
(* C3: decode fails with UnknownDataType exactly when the first defect of  *)
(* the buffer is a header whose type_id is not registered, and the type_id *)
(* it then stopped at is one has_type reports as not registered.  (Stated  *)
(* for calls whose behaviour is defined.)                                  *)
(***************************************************************************)
C3_UnknownIffFirstDefect ==
    DefinedCall =>
        /\ (result.error = UnknownDataType)
               <=> (FirstDefect(data_types_, Payload) = UnknownDataType)
        /\ (result.error = UnknownDataType) =>
               ~has_type(data_types_,
                         Payload[result.trace[Len(result.trace)] + 2])

(***************************************************************************)
(* C4: after zero or more complete frames, a header of a registered type   *)
(* of width w followed by fewer than w bytes makes decode fail with        *)
(* BadPayloadFormat.  (Stated for calls whose behaviour is defined.)       *)
(***************************************************************************)
C4_TruncatedFrameFails ==
    LET e == WalkEnd(data_types_, Payload)
    IN  (/\ DefinedCall
         /\ Len(Payload) - e >= 2
         /\ Registered(data_types_, Payload[e + 2])
         /\ Len(Payload) - (e + 2) < data_types_[Payload[e + 2]].size) =>
            /\ result.outcome = "error"
            /\ result.error = BadPayloadFormat

(***************************************************************************)
(* C5: when the frame loop ends without an error, 0 or 1 byte is left      *)
(* unconsumed, and decode fails (with BadPayloadFormat) exactly when 1 is  *)
(* left; so complete frames followed by one more byte, and a 1-byte        *)
(* buffer, fail with BadPayloadFormat.                                     *)
(***************************************************************************)
LoopExited == Decoded /\ result.line \in {127, 130}

Unconsumed == Len(Payload) - result.trace[Len(result.trace)]

C5_TrailingByte ==
    /\ LoopExited =>
           /\ Unconsumed \in {0, 1}
           /\ (result.outcome = "error") <=> (Unconsumed = 1)
           /\ (result.error = BadPayloadFormat) <=> (Unconsumed = 1)
    /\ (Decoded /\ Len(Payload) - WalkEnd(data_types_, Payload) = 1) =>
           /\ result.outcome = "error"
           /\ result.error = BadPayloadFormat
           /\ result.line = 127

\* a complete frame of a custom type of width 2, then one more byte
C5_Witness ==
    /\ Decoded
    /\ Len(FrameStarts(data_types_, Payload, 0)) = 1
    /\ Len(Payload) - WalkEnd(data_types_, Payload) = 1
    /\ ~data_types_[Payload[2]].standard
    /\ Len(Payload) = 5
    /\ result.error = BadPayloadFormat

(***************************************************************************)
(* C6: decode fails with PayloadEmpty exactly when the buffer is empty,    *)
(* whatever the registry.                                                  *)
(***************************************************************************)
C6_PayloadEmptyIffEmpty ==
    Decoded =>
        ((result.outcome = "error" /\ result.error = PayloadEmpty)
             <=> (Len(Payload) = 0))

\* the empty buffer was decoded with a custom type registered
C6_Witness ==
    /\ Decoded
    /\ Len(Payload) = 0
    /\ result.error = PayloadEmpty
    /\ 160 \in DOMAIN data_types_

(***************************************************************************)
(* The standard table as the documentation lists it: id, name, byte width. *)
(***************************************************************************)
StandardIds == {0, 1, 2, 3, 101, 102, 103, 104, 113, 115, 134, 136}

StandardName(id) ==
    CASE id = 0 -> "Digital Input"    [] id = 1 -> "Digital Output"
      [] id = 2 -> "Analog Input"     [] id = 3 -> "Analog Output"
      [] id = 101 -> "Luminosity"     [] id = 102 -> "Presence"
      [] id = 103 -> "Temperature"    [] id = 104 -> "Humidity"
      [] id = 113 -> "Accelerometer"  [] id = 115 -> "Barometer"
      [] id = 134 -> "Gyrometer"      [] id = 136 -> "GPS"

StandardWidth(id) ==
    CASE id \in {0, 1, 102} -> 1
      [] id \in {2, 3, 101, 103, 104, 115} -> 2
      [] id \in {113, 134} -> 6
      [] id = 136 -> 9

StandardTypesKept ==
    \A id \in StandardIds :
        /\ id \in DOMAIN data_types_
        /\ data_types_[id].standard
        /\ data_types_[id].name = StandardName(id)
        /\ data_types_[id].size = StandardWidth(id)

(***************************************************************************)
(* C7: a freshly constructed decoder registers exactly the 12 standard     *)
(* ids, and in every state reached by add_custom_type,                     *)
(* remove_custom_type, has_type and decode calls each of them is still     *)
(* registered, flagged standard, with the name and width of the standard   *)
(* table.                                                                  *)
(***************************************************************************)
C7_StandardTypesImmutable ==
    /\ DOMAIN data_types_ = StandardIds
    /\ [](StandardTypesKept /\ Cardinality(StandardIds) = 12)

\* a registration with acceptable name, size and rule was tried on a standard id
C7_Witness ==
    /\ call.op = "add_custom_type"
    /\ call.args.type_id \in StandardIds
    /\ call.args.size >= 1
    /\ Callable(call.args.decoder_function)
    /\ ret = FALSE
    /\ StandardTypesKept

\* the descriptor add_custom_type(a...) is to register
Supplied(a) ==
    [name |-> a.name, size |-> a.size, type_id |-> a.type_id,
     standard |-> FALSE, decoder_function |-> a.decoder_function]

\* widths for which a complete frame fits a payload of the model
FitsPayload(size) == 2 + size <= MaxLen

(***************************************************************************)
(* C8: add_custom_type(id, name, size, fn) returns true exactly when id is *)
(* not registered, size >= 1 and fn is callable, whatever the name; after  *)
(* a success has_type(id) holds and a frame with that id decodes with      *)
(* exactly the supplied name, width and rule (whatever descriptors the     *)
(* registry held before).                                                  *)
(***************************************************************************)
C8_AddCustomType ==
    [][(call'.op = "add_custom_type") =>
         LET a == call'.args
         IN  /\ ret' <=> (/\ ~has_type(data_types_, a.type_id)
                          /\ a.size >= 1
                          /\ a.decoder_function # nullptr)
             /\ ret' =>
                  /\ has_type(data_types_', a.type_id)
                  /\ data_types_'[a.type_id] = Supplied(a)
                  /\ FitsPayload(a.size) =>
                       \A channel \in ByteChoices, build \in BuildChoices,
                          data \in [1..a.size -> ByteChoices] :
                           LET r == decode(data_types_',
                                           <<channel, a.type_id>> \o data, build)
                           IN  /\ r.outcome = "value"
                               /\ r.trace = <<0, 2 + a.size>>
                               /\ r.value =
                                    [k \in {a.name \o "_" \o ToString(channel)}
                                       |-> InvokeRule(a.decoder_function, data)]
      ]_vars

\* a registration under the name of a standard type succeeded
C8_Witness ==
    /\ call.op = "add_custom_type"
    /\ ret = TRUE
    /\ call.args.name = StandardName(0)
    /\ call.args.size = 2
    /\ data_types_[call.args.type_id] = Supplied(call.args)

\* the walk over payload reaches a header that carries type_id
ReachesHeader(types, payload, type_id) ==
    LET e == WalkEnd(types, payload)
    IN  Len(payload) - e >= 2 /\ payload[e + 2] = type_id

(***************************************************************************)
(* C9: remove_custom_type(id) returns true exactly when id is registered   *)
(* as a custom type (false for standard and for unregistered ids); after   *)
(* a success has_type(id) is false and every decode that reaches a header  *)
(* with that id fails with UnknownDataType, also for buffers that decoded  *)
(* successfully before the removal.                                        *)
(***************************************************************************)
C9_RemoveCustomType ==
    [][(call'.op = "remove_custom_type") =>
         LET id == call'.args.type_id
         IN  /\ ret' <=> (has_type(data_types_, id) /\ ~data_types_[id].standard)
             /\ (id \in StandardIds \/ ~has_type(data_types_, id)) => ~ret'
             /\ ret' =>
                  /\ ~has_type(data_types_', id)
                  /\ \A payload \in PayloadChoices, build \in BuildChoices :
                       ReachesHeader(data_types_', payload, id) =>
                           LET r == decode(data_types_', payload, build)
                           IN  r.outcome = "error" /\ r.error = UnknownDataType
                  /\ FitsPayload(data_types_[id].size) =>
                       \E payload \in PayloadChoices :
                           /\ WellFramed(data_types_, payload)
                           /\ decode(data_types_, payload, "release").outcome
                                  = "value"
                           /\ ReachesHeader(data_types_', payload, id)
      ]_vars

\* a custom type was removed
C9_Witness ==
    /\ call.op = "remove_custom_type"
    /\ ret = TRUE
    /\ call.args.type_id = 160
    /\ ~has_type(data_types_, 160)

(***************************************************************************)
(* C10: add_custom_type and remove_custom_type change at most the registry *)
(* entry of the id they are given: a call that returns false leaves the    *)
(* registry unchanged, and a call that returns true leaves the descriptor  *)
(* of every other id unchanged.                                            *)
(***************************************************************************)
C10_RegistryFrame ==
    [][(call'.op \in {"add_custom_type", "remove_custom_type"}) =>
         /\ ~ret' => data_types_' = data_types_
         /\ ret' =>
              \A id \in ((DOMAIN data_types_) \cup (DOMAIN data_types_'))
                            \ {call'.args.type_id} :
                  /\ id \in DOMAIN data_types_
                  /\ id \in DOMAIN data_types_'
                  /\ data_types_'[id] = data_types_[id]
      ]_vars

\* a registration was rejected for an id that holds a custom type with
\* another name, size and rule
C10_Witness ==
    /\ call.op = "add_custom_type"
    /\ ret = FALSE
    /\ call.args.type_id = 160
    /\ has_type(data_types_, 160)
    /\ call.args.size >= 1
    /\ Callable(call.args.decoder_function)
    /\ data_types_[160].name # call.args.name
    /\ data_types_[160].size # call.args.size
    /\ data_types_[160].decoder_function # call.args.decoder_function

\* the standard table as a registry
DocumentedStandardTypes ==
    [id \in StandardIds |->
        [name |-> StandardName(id), size |-> StandardWidth(id), type_id |-> id,
         standard |-> TRUE, decoder_function |-> nullptr]]

\* the registry of a Decoder on which no other successful registry calls
\* than those of history were made
LoneRegistry(history) ==
    [id \in StandardIds \cup DOMAIN history |->
        IF id \in DOMAIN history THEN Supplied(history[id])
        ELSE DocumentedStandardTypes[id]]

\* the data_types_ member of Decoder d, given the two members
HeldBy(d, member1, member2) == IF d = "decoder2" THEN member2 ELSE member1

(***************************************************************************)
(* C11: two Decoders share no registry state.  Whatever calls were made on *)
(* decoder1 and decoder2 and in whatever order, a call on one of them      *)
(* leaves the registry of the other as it was, the registry it works on is *)
(* the one a Decoder holds on which only its own calls were made, has_type *)
(* and decode on it return what they return on such a Decoder, and a       *)
(* custom id registered only on the other one is unknown to it: has_type   *)
(* returns false and a decode that reaches a header with that id fails     *)
(* with UnknownDataType.                                                   *)
(***************************************************************************)
C11_InstancesIsolated ==
    [][(call'.op # "idle") =>
         LET self == call'.args.self
             other == CHOOSE d \in Instances : d # self
             lone == LoneRegistry(registered[self])
             payload == call'.args.encoded_payload
         IN  /\ HeldBy(other, data_types_', decoder2_data_types_')
                    = HeldBy(other, data_types_, decoder2_data_types_)
             /\ registered'[other] = registered[other]
             /\ HeldBy(self, data_types_, decoder2_data_types_) = lone
             /\ HeldBy(self, data_types_', decoder2_data_types_')
                    = LoneRegistry(registered'[self])
             /\ (call'.op = "has_type") =>
                    (ret' <=> call'.args.type_id \in DOMAIN lone)
             /\ (call'.op = "decode") =>
                    \E build \in BuildChoices :
                        result' = decode(lone, payload, build)
             /\ \A id \in (DOMAIN registered[other]) \ (DOMAIN registered[self]) :
                    /\ (call'.op = "has_type" /\ call'.args.type_id = id) => ~ret'
                    /\ (call'.op = "decode" /\ ReachesHeader(lone, payload, id)) =>
                           /\ result'.outcome = "error"
                           /\ result'.error = UnknownDataType
      ]_vars

\* decoder1 holds 0xA1 and decoder2 holds 0xA0, as in the test, and a frame
\* of 0xA0 was handed to decoder1
C11_Witness ==
    /\ call.op = "decode"
    /\ call.args.self = "decoder1"
    /\ DOMAIN registered["decoder1"] = {161}
    /\ DOMAIN registered["decoder2"] = {160}
    /\ call.args.encoded_payload = <<0, 160, 0>>
    /\ result.error = UnknownDataType

\* the frames at offsets i and j carry the same type on the same channel
SameTypeAndChannel(payload, i, j) ==
    payload[i + 1] = payload[j + 1] /\ payload[i + 2] = payload[j + 2]

RECURSIVE InsertionOrder(_, _, _, _)
InsertionOrder(types, payload, starts, n) ==
    IF n > Len(starts) THEN << >>
    ELSE LET k == FrameKey(types, payload, starts[n])
         IN  IF \E m \in 1..(n - 1) : FrameKey(types, payload, starts[m]) = k
             THEN InsertionOrder(types, payload, starts, n + 1)
             ELSE <<k>> \o InsertionOrder(types, payload, starts, n + 1)

(***************************************************************************)
(* C13: the mapping a successful decode returns enumerates its entries in  *)
(* insertion order, i.e. in the order in which the frames of the buffer    *)
(* first carry each key.                                                   *)
(***************************************************************************)
C13_InsertionOrder ==
    (Decoded /\ WellFramed(data_types_, Payload) /\ result.outcome = "value") =>
        items(result.value)
            = InsertionOrder(data_types_, Payload,
                             FrameStarts(data_types_, Payload, 0), 1)

\* a number 0..9 as a digit
Digit(d) == SubSeq("0123456789", d + 1, d + 1)

\* a natural number in decimal, without padding
RECURSIVE Decimal(_)
Decimal(n) == IF n < 10 THEN Digit(n) ELSE Decimal(n \div 10) \o Digit(n % 10)

\* "<name>_<channel>" of the frame at offset i
DecimalKey(types, payload, i) ==
    types[payload[i + 2]].name \o "_" \o Decimal(payload[i + 1])

\* the offsets of the channel bytes of payload: the first byte of every
\* complete frame and of what follows the last one
ChannelOffsets(types, payload) ==
    Range(FrameStarts(types, payload, 0))
        \cup (IF WalkEnd(types, payload) < Len(payload)
              THEN {WalkEnd(types, payload)} ELSE {})

\* payload with the channel byte at offset i replaced by the next value
NextChannelAt(payload, i) ==
    [payload EXCEPT ![i + 1] = (payload[i + 1] + 1) % 256]

\* the frame at starts[n] is the last one of payload with its key
LastOfKey(types, payload, starts, n) ==
    \A m \in DOMAIN starts :
        m > n => DecimalKey(types, payload, starts[m])
                     # DecimalKey(types, payload, starts[n])

(***************************************************************************)
(* C14: every channel value 0..255 is accepted and the key of a frame is   *)
(* the descriptor's name, an underscore and the channel in unpadded        *)
(* decimal; replacing a channel byte of a buffer by another value changes  *)
(* neither whether decode succeeds, nor the error, nor the return          *)
(* statement taken, nor the cursor positions, nor the value decoded for a  *)
(* frame: only keys.  (Stated for calls whose behaviour is defined; one    *)
(* channel byte is replaced by its successor modulo 256, which reaches     *)
(* every replacement by repetition.)                                       *)
(***************************************************************************)
C14_ChannelOnlyInKey ==
    DefinedCall =>
        LET starts == FrameStarts(data_types_, Payload, 0)
        IN  /\ WellFramed(data_types_, Payload) =>
                   /\ result.outcome = "value"
                   /\ DOMAIN result.value
                          = {DecimalKey(data_types_, Payload, starts[n]) :
                                n \in DOMAIN starts}
            /\ \A i \in ChannelOffsets(data_types_, Payload) :
                   LET other == NextChannelAt(Payload, i)
                       r == decode(data_types_, other, "assertions")
                   IN  /\ r.outcome = result.outcome
                       /\ r.error = result.error
                       /\ r.line = result.line
                       /\ r.trace = result.trace
                       /\ WellFramed(data_types_, Payload) =>
                              \A n \in DOMAIN starts :
                                  (/\ LastOfKey(data_types_, Payload, starts, n)
                                   /\ LastOfKey(data_types_, other, starts, n)) =>
                                      r.value[DecimalKey(data_types_, other, starts[n])]
                                          = result.value[DecimalKey(data_types_, Payload,
                                                                    starts[n])]

\* Temperature was decoded on channel 255
C14_Witness ==
    /\ DefinedCall
    /\ Payload = <<255, 103, 1, 16>>
    /\ DOMAIN result.value = {"Temperature_255"}
    /\ result.value["Temperature_255"] = JsonFloat(272, 10)

\* the applications of a rule made for the header at offset i
InvokedAt(invoked, i) == {j \in DOMAIN invoked : invoked[j].at = i}

(***************************************************************************)
(* C15: for every complete frame of a registered custom type of width w,   *)
(* decode applies the rule registered for that type exactly once, to       *)
(* exactly the w bytes after the header, goes on at the byte right after   *)
(* them and, when it returns a mapping, the mapping holds the value the    *)
(* rule returned under "<name>_<channel>" (unless a later frame has the    *)
(* same key).  Every rule decode applies is the registered rule for a      *)
(* custom id and a case of the switch for a standard id, never the other   *)
(* way round; buffers mixing complete custom and standard frames decode.   *)
(***************************************************************************)
C15_CustomRuleApplied ==
    Decoded =>
        LET starts == FrameStarts(data_types_, Payload, 0)
        IN  /\ \A n \in DOMAIN starts :
                   LET i == starts[n]
                       data_type == data_types_[Payload[i + 2]]
                       data == FrameData(data_types_, Payload, i)
                   IN  ~data_type.standard =>
                           /\ Cardinality(InvokedAt(result.invoked, i)) = 1
                           /\ \A j \in InvokedAt(result.invoked, i) :
                                  result.invoked[j]
                                      = [rule |-> data_type.decoder_function,
                                         type_id |-> Payload[i + 2],
                                         span |-> [defined |-> TRUE, data |-> data],
                                         at |-> i]
                           /\ Len(data) = data_type.size
                           /\ \E j \in 1..(Len(result.trace) - 1) :
                                  /\ result.trace[j] = i
                                  /\ result.trace[j + 1] = i + 2 + data_type.size
                           /\ (/\ result.outcome = "value"
                               /\ \A m \in DOMAIN starts :
                                      m > n => FrameKey(data_types_, Payload, starts[m])
                                                   # FrameKey(data_types_, Payload, i))
                                  => result.value[FrameKey(data_types_, Payload, i)]
                                         = InvokeRule(data_type.decoder_function, data)
            /\ \A j \in DOMAIN result.invoked :
                   LET applied == result.invoked[j]
                   IN  /\ applied.type_id \in DOMAIN data_types_
                       /\ (applied.rule = "switch")
                              <=> data_types_[applied.type_id].standard
                       /\ ~data_types_[applied.type_id].standard =>
                              /\ Callable(applied.rule)
                              /\ applied.rule
                                     = data_types_[applied.type_id].decoder_function
            /\ WellFramed(data_types_, Payload) =>
                   /\ result.outcome = "value"
                   /\ Len(result.invoked) = Len(starts)

\* a frame of a custom type whose rule returns the array of its bytes was
\* decoded, followed by a Digital Input frame
C15_Witness ==
    /\ Decoded
    /\ Payload = <<0, 160, 161, 0, 0, 160>>
    /\ Len(result.invoked) = 2
    /\ result.invoked[1].rule = ArrayRule
    /\ result.invoked[1].span.data = <<161>>
    /\ result.invoked[2].rule = "switch"
    /\ result.outcome = "value"
    /\ DOMAIN result.value = {"_0", "Digital Input_0"}
    /\ result.value["_0"] = JsonArray(<<161>>)
    /\ result.value["Digital Input_0"] = JsonUnsigned(160)

(***************************************************************************)
(* The conversions as the documentation states them, on plain integers.    *)
(***************************************************************************)
\* a frame of the standard type type_id with complete data was decoded alone
DecodedFrameOf(type_id) ==
    /\ Decoded
    /\ Len(Payload) = 2 + StandardWidth(type_id)
    /\ Payload[2] = type_id
    /\ data_types_ = DocumentedStandardTypes

\* the value decode returned for that frame
FrameResult == result.value[FrameKey(data_types_, Payload, 0)]

BigEndian16(b0, b1) == 256 * b0 + b1

TwosComplement16(u) == IF u <= 32767 THEN u ELSE u - 65536

BigEndian24(b0, b1, b2) == 65536 * b0 + 256 * b1 + b2

TwosComplement24(u) == IF u <= 8388607 THEN u ELSE u - 16777216

\* the Json number v is the quotient n / d
IsQuotient(v, n, d) ==
    /\ v.type = "number_float"
    /\ v.den > 0
    /\ v.num * d = n * v.den

\* the Json number v is the integer n
IsInteger(v, n) == v.type = "number_unsigned" /\ v.den = 1 /\ v.num = n

(***************************************************************************)
(* C16: a frame of Analog Input (0x02), Analog Output (0x03) or            *)
(* Temperature (0x67) with data bytes b0, b1 decodes to s / divisor, where *)
(* u = 256*b0 + b1, s = u if u <= 32767 and u - 65536 otherwise, and the   *)
(* divisor is 100, 100 and 10; s lies in -32768..32767, 0x7FFF gives       *)
(* 32767, 0x8000 gives -32768, 0xFFFF gives -1; 0x01,0x10 gives            *)
(* Temperature 27.2 and 0xFF,0xF6 gives -1.0.                              *)
(***************************************************************************)
C16_Signed16 ==
    \A type_id \in {2, 3, 103} :
        DecodedFrameOf(type_id) =>
            LET b0 == Payload[3]
                b1 == Payload[4]
                s == TwosComplement16(BigEndian16(b0, b1))
                divisor == IF type_id = 103 THEN 10 ELSE 100
            IN  /\ result.outcome = "value"
                /\ DOMAIN result.value = {StandardName(type_id) \o "_1"}
                /\ FrameResult = [type |-> "number_float", num |-> s, den |-> divisor]
                /\ IsQuotient(FrameResult, s, divisor)
                /\ s \in -32768..32767
                /\ (b0 = 127 /\ b1 = 255) => FrameResult.num = 32767
                /\ (b0 = 128 /\ b1 = 0) => FrameResult.num = -32768
                /\ (b0 = 255 /\ b1 = 255) => FrameResult.num = -1
                /\ (type_id = 103 /\ b0 = 1 /\ b1 = 16) => IsQuotient(FrameResult, 272, 10)
                /\ (type_id = 103 /\ b0 = 255 /\ b1 = 246) => IsQuotient(FrameResult, -1, 1)

\* Temperature 0xFF,0xF6 was decoded to -1.0
C16_Witness ==
    /\ DecodedFrameOf(103)
    /\ Payload = <<1, 103, 255, 246>>
    /\ result.outcome = "value"
    /\ IsQuotient(FrameResult, -1, 1)

FieldsOf(v) == (DOMAIN v) \ {"type"}

FailedUnknown ==
    Decoded /\ result.outcome = "error" /\ result.error = UnknownDataType

\* the type_id byte of the header decode stopped at
Offending == Payload[result.trace[Len(result.trace)] + 2]

\* the ids of the model that are not registered
UnregisteredIds == TypeIdChoices \ DOMAIN data_types_

\* what decode delivers for a lone header with type_id id
ProbeHeader(id) == decode(data_types_, <<0, id>>, "assertions")

FailedBadFormat ==
    Decoded /\ result.outcome = "error" /\ result.error = BadPayloadFormat

\* what decode delivers for a header of Digital Input with its data byte
\* missing (insufficient bytes), and for one lone byte (trailing byte)
ProbeInsufficient == decode(data_types_, <<0, 0>>, "assertions")

ProbeTrailing == decode(data_types_, <<0>>, "assertions")

WidthAt(i) == data_types_[Payload[i + 2]].size

(***************************************************************************)
(* C22: decode terminates for every buffer and every reachable registry:   *)
(* the call returns, the cursor never decreases, every iteration that does *)
(* not return an error advances the cursor by at least 2 plus the width of *)
(* the type, and the loop runs at most length/2 times.                     *)
(***************************************************************************)
C22_Terminates ==
    Decoded =>
        /\ result.outcome \in {"value", "error"}
        /\ \A n \in 1..(Len(result.trace) - 1) :
               /\ result.trace[n + 1] >= result.trace[n]
               /\ result.trace[n + 1] - result.trace[n]
                      >= 2 + WidthAt(result.trace[n])
        /\ 2 * (Len(result.trace) - 1) <= Len(Payload)

\* what the call of thread t can deliver when it is the only one under way
Alone(t) ==
    {decode(data_types_, threads[t].encoded_payload, build) :
         build \in BuildChoices}

(***************************************************************************)
(* C23: decode calls run concurrently on one Decoder whose registry is no  *)
(* longer mutated; under every interleaving each call returns the result   *)
(* it returns when run alone: a call that has left decode has delivered    *)
(* what it delivers alone, and a call that was ended without a return is   *)
(* one that does not return when run alone either.                         *)
(***************************************************************************)
C23_ConcurrentDecodes ==
    \A t \in Threads :
        /\ threads[t].pc \in {"returned", "hung"} =>
               threads[t].result \in Alone(t)
        /\ threads[t].pc = "aborted" =>
               \E r \in Alone(t) : r.outcome = "abort"

\* the (type_id, width) pairs of a registry
Pairs(types) == {<<k, types[k].size>> : k \in DOMAIN types}

\* a registry built from (type_id, width) pairs alone: no names, the rule of
\* every custom type one that returns 0
FromPairs(pairs) ==
    [k \in {p[1] : p \in pairs} |->
        DataType(k, "", (CHOOSE p \in pairs : p[1] = k)[2], k \in StandardIds,
                 IF k \in StandardIds THEN nullptr ELSE ZeroRule)]

\* success, or which of the error kinds (or no return at all)
Kind(r) == [outcome |-> r.outcome, error |-> r.error]

\* the outcome kind computed from the buffer and the pairs alone, per build
KindFromPairs(build) ==
    Kind(decode(FromPairs(Pairs(data_types_)), Payload, build))

(***************************************************************************)
(* C24: the outcome kind of decode (success, or which error kind) is a     *)
(* function of the buffer bytes and of the (type_id, width) pairs of the   *)
(* registry: after any history of calls, the kind of a call that returned  *)
(* is the one computed from its buffer and the pairs alone, whatever the   *)
(* names and whatever the custom rules return; a call that did not return  *)
(* ended the way the same buffer and pairs end in one of the builds.       *)
(***************************************************************************)
C24_OutcomeKindFunction ==
    Decoded =>
        /\ \E build \in BuildChoices : Kind(result) = KindFromPairs(build)
        /\ result.outcome \in {"value", "error"} =>
               \A build \in BuildChoices : Kind(result) = KindFromPairs(build)

\* a frame of 0xA0, registered under the name "Digital Input" with the rule
\* that returns the bytes, was decoded after a frame of Digital Input
C24_Witness ==
    /\ Decoded
    /\ result.outcome = "value"
    /\ 160 \in DOMAIN data_types_
    /\ data_types_[160].decoder_function = ArrayRule
    /\ data_types_[160].name = "Digital Input"
    /\ Len(result.invoked) = 2
    /\ result.invoked[2].rule = ArrayRule
    /\ FromPairs(Pairs(data_types_)) # data_types_

(***************************************************************************)
(* C25: in every registry state reachable through add_custom_type and      *)
(* remove_custom_type, every non-standard descriptor has a callable decode *)
(* rule and a width of at least 1; and decode never returns Unexpected     *)
(* (the return of line 73), whatever the buffer.                           *)
(***************************************************************************)
C25_NeverUnexpected ==
    /\ \A k \in DOMAIN data_types_ :
           ~data_types_[k].standard =>
               /\ Callable(data_types_[k].decoder_function)
               /\ data_types_[k].size >= 1
    /\ Decoded => (result.error # Unexpected /\ result.line # 73)

\* a frame of a custom type was decoded: the test of line 67 was made on its
\* descriptor and the rule was applied
C25_Witness ==
    /\ Decoded
    /\ result.outcome = "value"
    /\ Len(result.invoked) = 1
    /\ result.invoked[1].type_id = 160
    /\ result.invoked[1].rule = data_types_[160].decoder_function
    /\ Callable(result.invoked[1].rule)

(***************************************************************************)
(* C26: decode and has_type never modify the registry, whether decode      *)
(* succeeds or fails with any error: the registered ids and every          *)
(* descriptor (name, width, standard flag, rule) are the same after the    *)
(* call as before it.                                                      *)
(***************************************************************************)
C26_ReadOnlyCalls ==
    [][(call'.op \in {"decode", "has_type"}) =>
         /\ DOMAIN data_types_' = DOMAIN data_types_
         /\ \A id \in DOMAIN data_types_ : data_types_'[id] = data_types_[id]
         /\ decoder2_data_types_' = decoder2_data_types_
      ]_vars

\* a decode that read a complete frame of the custom type 0xA0 and then
\* failed at a header of 0xA1, which is not registered, has returned
C26_Witness ==
    /\ Decoded
    /\ result.outcome = "error"
    /\ result.error = UnknownDataType
    /\ Len(result.invoked) = 1
    /\ LookedUp(Payload, result.trace) = {160, 161}
    /\ DOMAIN data_types_ = StandardIds \cup {160}

\* the headers decode has read: positions of the trace at which the loop
\* condition held
HeadersRead ==
    {n \in DOMAIN result.trace : LoopCondition(result.trace[n], Len(Payload))}

\* the bytes that truly remain after the header read at trace position n
Remaining(n) == Len(Payload) - (result.trace[n] + 2)

(***************************************************************************)
(* C27: the insufficient-bytes check is exact for every width that         *)
(* add_custom_type accepts, up to the maximum of std::size_t: whenever     *)
(* decode has read the header of a registered type and fewer bytes remain  *)
(* after it than the width, the call ends there with BadPayloadFormat      *)
(* (line 59); no sub-span reaches beyond the end of the buffer (each one   *)
(* is defined and has exactly the registered width), and the cursor never  *)
(* moves backwards.                                                        *)
(***************************************************************************)
C27_ExactWidthCheck ==
    Decoded =>
        /\ \A n \in HeadersRead :
               (/\ Registered(data_types_, Payload[result.trace[n] + 2])
                /\ Remaining(n) < WidthAt(result.trace[n])) =>
                   /\ n = Len(result.trace)
                   /\ result.outcome = "error"
                   /\ result.error = BadPayloadFormat
                   /\ result.line = 59
        /\ \A i \in DOMAIN result.invoked :
               /\ result.invoked[i].span.defined
               /\ Len(result.invoked[i].span.data)
                      = data_types_[result.invoked[i].type_id].size
        /\ \A n \in 1..(Len(result.trace) - 1) :
               result.trace[n + 1] >= result.trace[n] + 2

(***************************************************************************)
(* C28: decode succeeds if and only if the buffer is non-empty and splits, *)
(* from offset 0, into consecutive frames of registered types, each with   *)
(* data of the registered width, the last ending at the end of the buffer; *)
(* the frames decode walks are the frames of that one split; every other   *)
(* non-empty buffer fails with UnknownDataType or BadPayloadFormat.        *)
(***************************************************************************)
C28_SucceedsIffWellFramed ==
    Decoded =>
        /\ (result.outcome = "value") <=> WellFramed(data_types_, Payload)
        /\ result.outcome = "value" =>
               result.trace
                   = FrameStarts(data_types_, Payload, 0) \o <<Len(Payload)>>
        /\ (Len(Payload) > 0 /\ ~WellFramed(data_types_, Payload)) =>
               /\ result.outcome = "error"
               /\ result.error \in {UnknownDataType, BadPayloadFormat}

\* mapping a overridden by mapping b: the entries of b win on equal keys
Overridden(a, b) ==
    [k \in (DOMAIN a) \cup (DOMAIN b) |-> IF k \in DOMAIN b THEN b[k] ELSE a[k]]

\* what decode delivers for the first s bytes of the buffer, and for the rest
DecodedPrefix(s) == decode(data_types_, SubSeq(Payload, 1, s), "assertions")

DecodedSuffix(s) ==
    decode(data_types_, SubSeq(Payload, s + 1, Len(Payload)), "assertions")

(***************************************************************************)
(* C29: decode is compositional over concatenation.  For every way to cut  *)
(* the decoded buffer into A and a non-empty B such that decode(A)         *)
(* succeeds with MA: decode(A ++ B) succeeds exactly when decode(B)        *)
(* succeeds, its result then is MA overridden by the mapping of decode(B), *)
(* and when decode(B) fails, decode(A ++ B) fails with the same error      *)
(* kind.                                                                   *)
(***************************************************************************)
C29_Concatenation ==
    Decoded =>
        \A s \in 1..(Len(Payload) - 1) :
            DecodedPrefix(s).outcome = "value" =>
                /\ (result.outcome = "value")
                       <=> (DecodedSuffix(s).outcome = "value")
                /\ DecodedSuffix(s).outcome = "value" =>
                       result.value = Overridden(DecodedPrefix(s).value,
                                                 DecodedSuffix(s).value)
                /\ DecodedSuffix(s).outcome = "error" =>
                       /\ result.outcome = "error"
                       /\ result.error = DecodedSuffix(s).error

\* frame i of those decode has processed: the name its type was given (by
\* the standard table, or by the caller of add_custom_type), its channel,
\* and the value its rule gives
GivenName(i) ==
    LET type_id == result.invoked[i].type_id
    IN  IF type_id \in StandardIds THEN StandardName(type_id)
        ELSE registered["decoder1"][type_id].name

ChannelOf(i) == Payload[result.invoked[i].at + 1]

ValueOf(i) ==
    LET f == result.invoked[i]
    IN  IF f.rule = "switch" THEN StandardRule(f.type_id, f.span.data)
        ELSE InvokeRule(f.rule, f.span.data)

\* frames i and j have the same name and the same channel
SameNameAndChannel(i, j) ==
    GivenName(i) = GivenName(j) /\ ChannelOf(i) = ChannelOf(j)

(***************************************************************************)
(* C30: output keys are built from the descriptor name, not the type id.   *)
(* In a successful result the keys are "<name>_<channel>" of the frames,   *)
(* two frames with the same name and channel share one entry even when     *)
(* their type ids differ, the entry holds the value of the later frame,    *)
(* and the number of entries is the number of distinct (name, channel)     *)
(* pairs among the frames.                                                 *)
(***************************************************************************)
C30_KeysFromNames ==
    (Decoded /\ result.outcome = "value") =>
        LET frames == DOMAIN result.invoked
            KeyOf(i) == GivenName(i) \o "_" \o Decimal(ChannelOf(i))
        IN  /\ DOMAIN result.value = {KeyOf(i) : i \in frames}
            /\ Cardinality(DOMAIN result.value)
                   = Cardinality({<<GivenName(i), ChannelOf(i)>> : i \in frames})
            /\ \A i \in frames :
                   (\A j \in frames : j > i => ~SameNameAndChannel(i, j))
                       => result.value[KeyOf(i)] = ValueOf(i)

\* a frame of Digital Input and then a frame of 0xA0, registered under the
\* name "Digital Input", on the same channel: one entry, with the value of
\* the frame of 0xA0; the (type_id, channel) pairs are two
C30_Witness ==
    /\ Decoded
    /\ result.outcome = "value"
    /\ Len(result.invoked) = 2
    /\ result.invoked[1].type_id = 0
    /\ result.invoked[2].type_id = 160
    /\ SameNameAndChannel(1, 2)
    /\ ValueOf(1) # ValueOf(2)
    /\ DOMAIN result.value = {"Digital Input_" \o Decimal(ChannelOf(2))}
    /\ result.value["Digital Input_" \o Decimal(ChannelOf(2))] = ValueOf(2)
    /\ Cardinality({<<result.invoked[i].type_id, ChannelOf(i)>> : i \in 1..2}) = 2

=============================================================================
